---- MODULE Spec2Model ----
(***************************************************************************)
(* Model of wordmmm.py: count_words_in_file and                            *)
(* analyze_directory_word_counts.  One run of the program is one           *)
(* behaviour: os.listdir, then for every listed entry the os.path.isfile   *)
(* test, open / read / leave the with block / except handler, the append   *)
(* to word_counts and file_word_map, and finally either the                *)
(* "No readable files found." line or the report.  The filesystem is the   *)
(* environment: what it answers is drawn when the program asks.            *)
(***************************************************************************)
EXTENDS Integers, Sequences, FiniteSets, TLC

\* ---- bounds ------------------------------------------------------------
\* the largest number of entries os.listdir returns
MaxEntries == 3
\* the largest number of characters of a file's text
MaxTextLen == 3

VARIABLES
    statisticsMode,  \* what statistics.mode does on a tie in this interpreter
    pc,              \* position of the program
    raised,          \* exception that left analyze_directory_word_counts
    listing,         \* os.listdir(directory), in the order it was returned
    idx,             \* position of the for loop in listing
    fskind,          \* entry type the filesystem has for each tested name
    readFailed,      \* names whose open or read raised
    handles,         \* file handles that are open
    exc,             \* exception in flight inside count_words_in_file
    result,          \* value count_words_in_file returns
    word_counts,     \* the list word_counts
    file_word_map,   \* the dict file_word_map, in insertion order
    out              \* the lines printed so far

vars == <<statisticsMode, pc, raised, listing, idx, fskind, readFailed,
          handles, exc, result, word_counts, file_word_map, out>>

\* ---- the environment ---------------------------------------------------
\* Entry types a directory entry can have.
Kinds == {"regular", "directory", "device",
          "symlink_to_regular", "symlink_to_directory"}

\* Characters of a text: two whitespace characters and one other.
Chars == {" ", "\n", "x"}
Whitespace == {" ", "\n"}

\* Texts a readable file can hold.
Texts == UNION {[1..n -> Chars] : n \in 0..MaxTextLen}

\* os.listdir returns each entry once, in an order the platform chooses;
\* file names are the numbers 1..n, listed ascending or descending.
Listings == UNION {{[i \in 1..n |-> i], [i \in 1..n |-> n + 1 - i]} :
                   n \in 0..MaxEntries}

\* statistics.mode on several equally common values: StatisticsError
\* before Python 3.8, the first of them encountered from 3.8 on.
ModeBehaviours == {"raise_on_tie", "first_mode"}

\* Exceptions os.listdir raises for a path it cannot list.
ListdirErrors == {"FileNotFoundError", "NotADirectoryError", "PermissionError"}

\* ---- pure functions ----------------------------------------------------
\* len(text.split()): the number of maximal runs of non-whitespace.
split_len(text) ==
    Cardinality({i \in 1..Len(text) :
        /\ text[i] \notin Whitespace
        /\ (i = 1 \/ text[i - 1] \in Whitespace)})

\* faulty variant: anything that is not a directory passes
isfile_as(kind) == kind \notin {"directory", "symlink_to_directory"}

\* os.path.isfile: stat (which follows symbolic links) says regular file.
isfile(kind) == kind \in {"regular", "symlink_to_regular"}

\* faulty variant: the first element is left out
RECURSIVE sum_as(_)
sum_as(s) == IF Len(s) <= 1 THEN 0 ELSE s[Len(s)] + sum_as(SubSeq(s, 1, Len(s) - 1))

RECURSIVE sum(_)
sum(s) == IF s = <<>> THEN 0 ELSE s[1] + sum(Tail(s))

\* x put into the ascending sequence s
Insert(x, s) ==
    LET k == Cardinality({i \in DOMAIN s : s[i] <= x})
    IN  SubSeq(s, 1, k) \o <<x>> \o SubSeq(s, k + 1, Len(s))

\* faulty variant: the data is not sorted
sorted_as(s) == s

RECURSIVE sorted(_)
sorted(s) ==
    IF s = <<>> THEN <<>>
    ELSE Insert(s[Len(s)], sorted(SubSeq(s, 1, Len(s) - 1)))

\* statistics.median: a value num/den, den = 1 for the int of an odd-length
\* list, den = 2 for the float (a + b) / 2 of an even-length one.
median(data) ==
    LET d == sorted(data)
        n == Len(d)
    IN  IF n % 2 = 1
        THEN [num |-> d[(n \div 2) + 1], den |-> 1]
        ELSE [num |-> d[n \div 2] + d[(n \div 2) + 1], den |-> 2]

\* statistics.mean printed with :.2f, in hundredths (round half to even;
\* no tie arises for fewer than 8 files).
mean_2f(data) ==
    LET n == Len(data)
        t == 100 * sum(data)
        q == t \div n
        r == t % n
    IN  IF 2 * r < n THEN q
        ELSE IF 2 * r > n THEN q + 1
        ELSE IF q % 2 = 0 THEN q ELSE q + 1

\* number of occurrences of v in data
count(data, v) == Cardinality({i \in DOMAIN data : data[i] = v})

\* faulty variant: the first value, however often it occurs
mode_as(data) == [raised |-> FALSE, value |-> data[1]]

\* statistics.mode: the most common value; on a tie either StatisticsError
\* or the first of the most common values encountered.
mode(data) ==
    LET top   == CHOOSE m \in 1..Len(data) :
                     /\ \E i \in DOMAIN data : count(data, data[i]) = m
                     /\ \A i \in DOMAIN data : count(data, data[i]) <= m
        table == {data[i] : i \in {j \in DOMAIN data : count(data, data[j]) = top}}
        first == CHOOSE i \in DOMAIN data :
                     /\ count(data, data[i]) = top
                     /\ \A j \in 1..(i - 1) : count(data, data[j]) < top
    IN  IF statisticsMode = "first_mode" \/ Cardinality(table) = 1
        THEN [raised |-> FALSE, value |-> data[first]]
        ELSE [raised |-> TRUE, value |-> 0]

\* faulty variant: the new item goes first
dict_setitem_as(d, k, v) == <<[key |-> k, value |-> v]>> \o d

\* d[k] = v on a dict: a new key goes last, an existing key keeps its place.
dict_setitem(d, k, v) ==
    IF \E i \in DOMAIN d : d[i].key = k
    THEN [i \in DOMAIN d |-> IF d[i].key = k THEN [key |-> k, value |-> v] ELSE d[i]]
    ELSE Append(d, [key |-> k, value |-> v])

\* faulty variant: the handle is closed on the return path only
with_exit_as(h, name, e) == IF e = "none" THEN h \ {name} ELSE h

\* leaving the with block closes the handle, whether by return or exception
with_exit(h, name, e) == h \ {name}

\* ---- printed lines -----------------------------------------------------
Line(kind, file, num, den, text) ==
    [kind |-> kind, file |-> file, num |-> num, den |-> den, text |-> text]

ErrorLine(name, e) == Line("error", name, 0, 1, e)
NoFilesLine == Line("nofiles", 0, 0, 1, "No readable files found.")
NoUniqueMode == "No unique mode"

\* lines 37-39: the header and one line per item of file_word_map
PerFileLines(d) ==
    <<Line("files_header", 0, 0, 1, "Word count per file:")>>
    \o [i \in DOMAIN d |-> Line("file", d[i].key, d[i].value, 1, "")]

\* lines 29-35 and 41-45
SummaryLines(data) ==
    LET total_words  == sum(data)
        median_words == median(data)
        m            == mode(data)
    IN  << Line("summary_header", 0, 0, 1, "Summary statistics:"),
           Line("total", 0, total_words, 1, ""),
           Line("mean", 0, mean_2f(data), 100, ""),
           Line("median", 0, median_words.num, median_words.den, ""),
           IF m.raised THEN Line("mode", 0, 0, 1, NoUniqueMode)
                       ELSE Line("mode", 0, m.value, 1, "") >>

\* ---- the program -------------------------------------------------------
name == listing[idx]

\* the for loop: the next entry, or past the loop
LoopPc(i) == IF i > Len(listing) THEN "check" ELSE "isfile"

\* faulty variant: a single count is taken for none
no_word_counts_as == Len(word_counts) <= 1

\* line 25: not word_counts
no_word_counts == word_counts = <<>>

Init ==
    /\ statisticsMode \in ModeBehaviours
    /\ pc = "listdir"
    /\ raised = "none"
    /\ listing = <<>>
    /\ idx = 1
    /\ fskind = <<>>
    /\ readFailed = {}
    /\ handles = {}
    /\ exc = "none"
    /\ result = 0
    /\ word_counts = <<>>
    /\ file_word_map = <<>>
    /\ out = <<>>

\* line 17: os.listdir(directory) returns the entries
Listdir ==
    /\ pc = "listdir"
    /\ \E l \in Listings :
        /\ listing' = l
        /\ pc' = IF l = <<>> THEN "check" ELSE "isfile"
    /\ idx' = 1
    /\ UNCHANGED <<statisticsMode, raised, fskind, readFailed, handles, exc,
                   result, word_counts, file_word_map, out>>

\* line 17: os.listdir(directory) raises; nothing catches it
ListdirRaises ==
    /\ pc = "listdir"
    /\ \E e \in ListdirErrors : raised' = e
    /\ pc' = "raised"
    /\ UNCHANGED <<statisticsMode, listing, idx, fskind, readFailed, handles,
                   exc, result, word_counts, file_word_map, out>>

\* lines 18-20: the entry is tested; one that is no file is passed over
IsFile ==
    /\ pc = "isfile"
    /\ \E k \in Kinds :
        /\ fskind' = fskind @@ (name :> k)
        /\ IF isfile(k)
           THEN pc' = "open" /\ idx' = idx
           ELSE pc' = LoopPc(idx + 1) /\ idx' = idx + 1
    /\ UNCHANGED <<statisticsMode, raised, listing, readFailed, handles, exc,
                   result, word_counts, file_word_map, out>>

\* line 6: open succeeds
OpenOk ==
    /\ pc = "open"
    /\ handles' = handles \cup {name}
    /\ pc' = "read"
    /\ UNCHANGED <<statisticsMode, raised, listing, idx, fskind, readFailed,
                   exc, result, word_counts, file_word_map, out>>

\* line 6: open raises
OpenFails ==
    /\ pc = "open"
    /\ exc' = "OSError"
    /\ readFailed' = readFailed \cup {name}
    /\ pc' = "except"
    /\ UNCHANGED <<statisticsMode, raised, listing, idx, fskind, handles,
                   result, word_counts, file_word_map, out>>

\* lines 7-8: the text is read and its words counted
ReadOk ==
    /\ pc = "read"
    /\ \E text \in Texts : result' = split_len(text)
    /\ pc' = "exit_with"
    /\ UNCHANGED <<statisticsMode, raised, listing, idx, fskind, readFailed,
                   handles, exc, word_counts, file_word_map, out>>

\* line 7: the bytes are no UTF-8
ReadDecodeError ==
    /\ pc = "read"
    /\ exc' = "UnicodeDecodeError"
    /\ readFailed' = readFailed \cup {name}
    /\ pc' = "exit_with"
    /\ UNCHANGED <<statisticsMode, raised, listing, idx, fskind, handles,
                   result, word_counts, file_word_map, out>>

\* line 6: the with block is left
ExitWith ==
    /\ pc = "exit_with"
    /\ handles' = with_exit(handles, name, exc)
    /\ pc' = IF exc = "none" THEN "append" ELSE "except"
    /\ UNCHANGED <<statisticsMode, raised, listing, idx, fskind, readFailed,
                   exc, result, word_counts, file_word_map, out>>

\* faulty variant: the handler returns 0 without printing
Except_as ==
    /\ pc = "except"
    /\ result' = 0
    /\ exc' = "none"
    /\ pc' = "append"
    /\ UNCHANGED <<statisticsMode, raised, listing, idx, fskind, readFailed,
                   handles, word_counts, file_word_map, out>>

\* lines 9-11: the handler prints the error and returns 0
Except ==
    /\ pc = "except"
    /\ out' = Append(out, ErrorLine(name, exc))
    /\ result' = 0
    /\ exc' = "none"
    /\ pc' = "append"
    /\ UNCHANGED <<statisticsMode, raised, listing, idx, fskind, readFailed,
                   handles, word_counts, file_word_map>>

\* lines 21-23: the count is appended and stored under the file's name
AppendCount ==
    /\ pc = "append"
    /\ word_counts' = Append(word_counts, result)
    /\ file_word_map' = dict_setitem(file_word_map, name, result)
    /\ result' = 0
    /\ idx' = idx + 1
    /\ pc' = LoopPc(idx + 1)
    /\ UNCHANGED <<statisticsMode, raised, listing, fskind, readFailed,
                   handles, exc, out>>

\* lines 25-27
NoFiles ==
    /\ pc = "check"
    /\ no_word_counts
    /\ out' = Append(out, NoFilesLine)
    /\ pc' = "done"
    /\ UNCHANGED <<statisticsMode, raised, listing, idx, fskind, readFailed,
                   handles, exc, result, word_counts, file_word_map>>

\* lines 29-45
Report ==
    /\ pc = "check"
    /\ ~no_word_counts
    /\ out' = out \o PerFileLines(file_word_map) \o SummaryLines(word_counts)
    /\ pc' = "done"
    /\ UNCHANGED <<statisticsMode, raised, listing, idx, fskind, readFailed,
                   handles, exc, result, word_counts, file_word_map>>

Next ==
    \/ Listdir
    \/ ListdirRaises
    \/ IsFile
    \/ OpenOk
    \/ OpenFails
    \/ ReadOk
    \/ ReadDecodeError
    \/ ExitWith
    \/ Except
    \/ AppendCount
    \/ NoFiles
    \/ Report

Spec == Init /\ [][Next]_vars

\* ---- notions the properties are stated with ----------------------------
Range(s) == {s[i] : i \in DOMAIN s}

\* the printed lines of one kind, in the order printed
Lines(kind) == SelectSeq(out, LAMBDA l : l.kind = kind)

\* the entries the loop is done with
Processed == SubSeq(listing, 1, idx - 1)

\* the filesystem says n is a regular file, reached directly or by a link
Qualifies(n) ==
    n \in DOMAIN fskind /\ fskind[n] \in {"regular", "symlink_to_regular"}

\* the qualifying entries the loop is done with, in enumeration order
QualifyingProcessed == SelectSeq(Processed, Qualifies)

\* how often v occurs among the collected counts
Freq(v) == Cardinality({i \in DOMAIN word_counts : word_counts[i] = v})

\* the count values no other value occurs more often than
MostFrequent ==
    {v \in Range(word_counts) : \A u \in Range(word_counts) : Freq(u) <= Freq(v)}

\* the k-th smallest of the collected counts
Kth(k) ==
    CHOOSE v \in Range(word_counts) :
        /\ Cardinality({i \in DOMAIN word_counts : word_counts[i] < v}) < k
        /\ k <= Cardinality({i \in DOMAIN word_counts : word_counts[i] <= v})

RECURSIVE SumNum(_)
SumNum(ls) == IF ls = <<>> THEN 0 ELSE ls[Len(ls)].num + SumNum(SubSeq(ls, 1, Len(ls) - 1))

ErrorsFor(n) == {i \in DOMAIN out : out[i].kind = "error" /\ out[i].file = n}

Reported == pc = "done" /\ word_counts # <<>>

\* ---- C1 ----------------------------------------------------------------
\* C1: whenever two or more distinct count values tie for the highest
\* frequency, the printed mode is the marker "No unique mode" and never a
\* count value.
C1_TieReportsNoUniqueMode ==
    (Reported /\ Cardinality(MostFrequent) >= 2)
        => Lines("mode") = <<Line("mode", 0, 0, 1, NoUniqueMode)>>

\* ---- C2 ----------------------------------------------------------------
\* C2: for a file whose open or decode fails, count_words_in_file returns
\* 0, the scan goes on, the file is appended and listed with count 0, and
\* exactly one "Error reading" line is printed for it.
C2_FailedFileCountsZero ==
    /\ \A i \in DOMAIN out : out[i].kind = "error" => out[i].file \in readFailed
    /\ \A n \in readFailed :
        /\ raised = "none"
        /\ Cardinality(ErrorsFor(n)) <= 1
        /\ (pc = "append" /\ n = name) => result = 0
        /\ (n \in Range(Processed) \/ (pc = "append" /\ n = name))
               => Cardinality(ErrorsFor(n)) = 1
        /\ n \in Range(Processed) =>
               \E i \in DOMAIN file_word_map :
                   /\ file_word_map[i] = [key |-> n, value |-> 0]
                   /\ i \in DOMAIN word_counts
                   /\ word_counts[i] = 0
        /\ pc = "done" =>
               /\ idx = Len(listing) + 1
               /\ SelectSeq(out, LAMBDA l : l.kind = "file" /\ l.file = n)
                      = <<Line("file", n, 0, 1, "")>>

C2_Witness ==
    /\ pc = "done"
    /\ \E i, j \in DOMAIN listing :
        /\ i < j
        /\ listing[i] \in readFailed
        /\ \E m \in DOMAIN file_word_map :
              file_word_map[m].key = listing[j] /\ file_word_map[m].value > 0

\* ---- C3 ----------------------------------------------------------------
\* C3: no exception leaves analyze_directory_word_counts, whatever the
\* path and the filesystem.
C3_NoExceptionPropagates == raised = "none"

\* ---- C4 ----------------------------------------------------------------
\* C4: with no qualifying file the output is exactly the one line
\* "No readable files found."; with at least one, even if none could be
\* read, the whole report is printed and that line is not.
C4_NoFilesMessage ==
    pc = "done" =>
        IF \A n \in Range(listing) : ~Qualifies(n)
        THEN out = <<NoFilesLine>>
        ELSE /\ Lines("nofiles") = <<>>
             /\ Len(Lines("files_header")) = 1
             /\ Len(Lines("file")) = Cardinality({n \in Range(listing) : Qualifies(n)})
             /\ Len(Lines("summary_header")) = 1
             /\ Len(Lines("total")) = 1
             /\ Len(Lines("mean")) = 1
             /\ Len(Lines("median")) = 1
             /\ Len(Lines("mode")) = 1

C4_Witness ==
    /\ pc = "done"
    /\ Len(listing) >= 2
    /\ \A n \in Range(listing) : ~Qualifies(n)
    /\ out = <<NoFilesLine>>

\* ---- C5 ----------------------------------------------------------------
\* C5 as claimed: only regular files are counted; a symbolic link, also
\* one to a regular file, is in neither the counts nor the report.
C5_SymlinksExcluded ==
    \A i \in DOMAIN file_word_map : fskind[file_word_map[i].key] = "regular"

\* C5 as amended: the entries counted and reported are exactly the listed
\* entries that are regular files after following symbolic links;
\* directories, devices and links to directories are never opened, counted
\* or reported.
C5_OnlyFilesFollowingLinks ==
    /\ \A i \in DOMAIN file_word_map :
           file_word_map[i].key \in Range(listing) /\ Qualifies(file_word_map[i].key)
    /\ \A n \in handles \cup readFailed : n \in Range(listing) /\ Qualifies(n)
    /\ Len(word_counts) = Len(QualifyingProcessed)
    /\ \A n \in Range(Processed) :
           /\ Qualifies(n) => \E i \in DOMAIN file_word_map : file_word_map[i].key = n
           /\ ~Qualifies(n) =>
                 /\ \A i \in DOMAIN file_word_map : file_word_map[i].key # n
                 /\ \A i \in DOMAIN out : out[i].file # n

C5_Witness ==
    /\ pc = "done"
    /\ \E i \in DOMAIN file_word_map :
           fskind[file_word_map[i].key] = "symlink_to_regular"
    /\ \E n \in Range(listing) : fskind[n] = "device"
    /\ \E n \in Range(listing) : fskind[n] = "symlink_to_directory"

\* ---- C6 ----------------------------------------------------------------
\* C6: the printed total is the sum of the counts printed per file.
C6_TotalIsSumOfReport ==
    Reported =>
        /\ Len(Lines("total")) = 1
        /\ Lines("total")[1].num = SumNum(Lines("file"))

C6_Witness ==
    /\ Reported
    /\ readFailed # {}
    /\ Len(Lines("file")) = 3
    /\ Lines("total")[1].num >= 3

\* ---- C7 ----------------------------------------------------------------
\* C7: the printed median is the median of the counts whatever their
\* order: the middle one of an odd number, the average of the two middle
\* ones of an even number.
C7_MedianIsStandard ==
    Reported =>
        LET n == Len(word_counts)
        IN  Lines("median") =
              << IF n % 2 = 1
                 THEN Line("median", 0, Kth((n + 1) \div 2), 1, "")
                 ELSE Line("median", 0, Kth(n \div 2) + Kth((n \div 2) + 1), 2, "") >>

C7_Witness ==
    /\ Reported
    /\ Len(word_counts) = 2
    /\ word_counts[1] > word_counts[2]
    /\ Lines("median") = <<Line("median", 0, 3, 2, "")>>

\* ---- C8 ----------------------------------------------------------------
\* C8: when one count value occurs strictly more often than every other,
\* that value is printed as the mode and the marker is not.
C8_UniqueModeReported ==
    \A v \in Range(word_counts) :
        (Reported /\ MostFrequent = {v})
            => Lines("mode") = <<Line("mode", 0, v, 1, "")>>

C8_Witness ==
    /\ Reported
    /\ Len(word_counts) = 3
    /\ Cardinality(Range(word_counts)) = 2
    /\ word_counts[1] # word_counts[2]
    /\ Lines("mode") = <<Line("mode", 0, word_counts[3], 1, "")>>

\* ---- C9 ----------------------------------------------------------------
\* C9: after every iteration word_counts and file_word_map are aligned:
\* the i-th qualifying file in enumeration order is the i-th key and maps
\* to the i-th count, each file once; the report lists them so.
C9_CountsAndMapAligned ==
    LET q == QualifyingProcessed
    IN  /\ Len(word_counts) = Len(q)
        /\ Len(file_word_map) = Len(q)
        /\ \A i \in DOMAIN file_word_map :
               /\ file_word_map[i].key = q[i]
               /\ file_word_map[i].value = word_counts[i]
        /\ \A i, j \in DOMAIN file_word_map :
               file_word_map[i].key = file_word_map[j].key => i = j
        /\ Reported =>
               Lines("file") = [i \in DOMAIN q |-> Line("file", q[i], word_counts[i], 1, "")]

C9_Witness ==
    /\ Reported
    /\ Len(listing) = 3
    /\ listing[1] > listing[3]
    /\ ~Qualifies(listing[2])
    /\ Len(word_counts) = 2
    /\ word_counts[1] # word_counts[2]

\* ---- C10 ---------------------------------------------------------------
\* C10: at most one handle is open at any time, and an opened handle is
\* closed before the next file and before the function returns, after a
\* read as after a read error.
C10_HandleClosed ==
    /\ Cardinality(handles) <= 1
    /\ pc \in {"read", "exit_with"} => handles = {name}
    /\ pc \notin {"read", "exit_with"} => handles = {}

C10_Witness ==
    /\ pc = "except"
    /\ exc = "UnicodeDecodeError"
    /\ idx >= 2
    /\ handles = {}

====
